---- MODULE Spec2Model ----
(***************************************************************************)
(* A model of timspy's AdvancedTims (src/timspy/timspy.py): the frame and  *)
(* scan selectors of _iter / __getitem__, the retention-time lookups       *)
(* frame2rt / rt2frame and the lru_cache'd session aggregates; and of      *)
(* TimsDIA.__init__, which builds the window index.                        *)
(***************************************************************************)
EXTENDS Integers, Sequences, FiniteSets, TLC

\* ------------------------------------------------------------------ bounds

\* Largest number of frames of a session (frames are numbered 1..N).
MaxFrame == 2
\* Largest NumScans / scan_max of a session.
MaxScan == 2
\* Longest explicit frame collection passed as a selector.
MaxLen == 2
\* Largest number of frames of a session whose retention times are looked up.
MaxRtFrames == 3
\* Largest retention time of a session; queries range one beyond either end.
MaxRt == 3
\* Longest array of frames or retention times passed to a lookup.
MaxQuery == 2
\* Number of live sessions (AdvancedTims objects) sharing the accessors.
MaxSessions == 2
\* Number of accessor calls followed.
MaxCalls == 4
\* Largest number of windows of a window table.
MaxWindows == 2
\* Largest window group id of a window table.
MaxGroup == 2

VARIABLES
    \* the session (AdvancedTims.__init__)
    min_frame, max_frame, min_scan, max_scan,
    \* one __getitem__(x) run
    pc, x, frames, s, S, i, calls, dfs, result, err,
    \* the retention-time column of self.frames and the last lookup made on it
    rt, rt_op, rt_arg, rt_res,
    \* the lru_cache of each memoized accessor, shared by the live sessions
    cache, computes, last_call, ncalls,
    \* TimsDIA.__init__: the window table read, and the index built from it
    dia_pc, win_table, windows, grid, scan_lims, lookup

sessionVars == <<min_frame, max_frame, min_scan, max_scan>>
runVars == <<pc, x, frames, s, S, i, calls, dfs, result, err>>
rtVars == <<rt, rt_op, rt_arg, rt_res>>
cacheVars == <<cache, computes, last_call, ncalls>>
diaVars == <<dia_pc, win_table, windows, grid, scan_lims, lookup>>
vars == <<min_frame, max_frame, min_scan, max_scan,
          pc, x, frames, s, S, i, calls, dfs, result, err,
          rt, rt_op, rt_arg, rt_res,
          cache, computes, last_call, ncalls,
          dia_pc, win_table, windows, grid, scan_lims, lookup>>

\* ------------------------------------------------------------ python values

\* An optional slice field: <<>> is None, <<v>> is the integer v.
Opt(V) == {<<>>} \cup {<<v>> : v \in V}

IsNone(o) == o = <<>>

Min2(a, b) == IF a <= b THEN a ELSE b

Max2(a, b) == IF a >= b THEN a ELSE b

SetMin(T) == CHOOSE v \in T : \A w \in T : v <= w

SetMax(T) == CHOOSE v \in T : \A w \in T : v >= w

\* len(range(start, stop, step)), step # 0.
PyRangeLen(start, stop, step) ==
    IF step > 0
    THEN IF stop > start THEN (stop - start + step - 1) \div step ELSE 0
    ELSE IF start > stop THEN (start - stop - step - 1) \div (0 - step) ELSE 0

\* range(start, stop, step) as the sequence it iterates.
PyRange(start, stop, step) ==
    [k \in 1..PyRangeLen(start, stop, step) |-> start + (k - 1) * step]

\* The columns every per-frame table and the result carry.
Columns == <<"frame", "scan", "mz_idx", "i">>

\* ------------------------------------------------------------------ session

border_frames == <<min_frame, max_frame>>

border_scans == <<min_scan, max_scan>>

\* self.frames.index: sorted ascending by frame, contiguous.
FramesIndex == [k \in 1..(max_frame - min_frame + 1) |-> min_frame + k - 1]

\* The query over a table that was not sorted by frame: rows in reverse order.
QueryUnsorted(pred) ==
    LET n == max_frame - min_frame + 1
    IN  SelectSeq([k \in 1..n |-> max_frame - k + 1], LAMBDA f : f \in pred)

\* self.frames.query(pred).index: the rows that satisfy the predicate, in table
\* order. A predicate is given by the set of frame numbers whose row satisfies it.
Query(pred) == SelectSeq(FramesIndex, LAMBDA f : f \in pred)

\* ---------------------------------------------------------------- selectors

\* Frame numbers a caller may name: one below and one above the session's span.
FrameVals == 0..(MaxFrame + 1)

ScanVals == 0..(MaxScan + 1)

StepVals == {0 - 1, 0, 2}

RECURSIVE SeqsUpTo(_, _)
SeqsUpTo(V, n) ==
    IF n = 0 THEN {<<>>}
    ELSE LET shorter == SeqsUpTo(V, n - 1)
         IN  shorter \cup {Append(q, v) : q \in shorter, v \in V}

FrameSelectors ==
    [kind : {"str"}, pred : SUBSET (1..MaxFrame)]
    \cup [kind : {"slice"}, start : Opt(FrameVals), stop : Opt(FrameVals),
          step : Opt(StepVals)]
    \cup [kind : {"iterable"}, items : SeqsUpTo(FrameVals, MaxLen)]
    \cup [kind : {"int"}, val : FrameVals]

\* "absent": x is not a tuple, only frames were given.
ScanSelectors ==
    [kind : {"absent"}]
    \cup [kind : {"slice"}, start : Opt(ScanVals), stop : Opt(ScanVals)]
    \cup [kind : {"int"}, val : ScanVals]
    \cup [kind : {"coll"}, items : SUBSET ScanVals]

NoSelector == [kind |-> "none"]

NoResult == [kind |-> "none"]

\* The memoized accessors and the live sessions that call them.
Accessors == {"global_TIC", "count_all_peaks", "MS1_frameNumbers", "MS2_frameNumbers"}

SessionIds == 1..MaxSessions

\* ---------------------------------------------------------------- fix_scans

\* fix_scans with an empty collection falling back to the whole scan span.
fix_scans_default(scans) ==
    LET lo == IF scans.kind = "slice"
              THEN (IF IsNone(scans.start) THEN min_scan ELSE scans.start[1])
              ELSE IF scans.kind = "int" THEN scans.val
              ELSE IF scans.items # {} THEN SetMin(scans.items) ELSE min_scan
        hi == IF scans.kind = "slice"
              THEN (IF IsNone(scans.stop) THEN max_scan ELSE scans.stop[1])
              ELSE IF scans.kind = "int" THEN scans.val + 1
              ELSE IF scans.items # {} THEN SetMax(scans.items) + 1 ELSE max_scan
    IN  [raised |-> FALSE,
         s |-> Min2(Max2(lo, min_scan), max_scan - 1),
         S |-> Max2(Min2(hi, max_scan), min_scan)]

\* fix_scans clamping the lower bound only from below and the upper bound only
\* from above.
fix_scans_halfclamp(scans) ==
    LET lo == IF scans.kind = "slice"
              THEN (IF IsNone(scans.start) THEN min_scan ELSE scans.start[1])
              ELSE IF scans.kind = "int" THEN scans.val
              ELSE IF scans.items # {} THEN SetMin(scans.items) ELSE 0
        hi == IF scans.kind = "slice"
              THEN (IF IsNone(scans.stop) THEN max_scan ELSE scans.stop[1])
              ELSE IF scans.kind = "int" THEN scans.val + 1
              ELSE IF scans.items # {} THEN SetMax(scans.items) + 1 ELSE 0
    IN  IF scans.kind = "coll" /\ scans.items = {}
        THEN [raised |-> TRUE, s |-> 0, S |-> 0]
        ELSE [raised |-> FALSE, s |-> Max2(lo, min_scan), S |-> Min2(hi, max_scan)]

\* fix_scans, lines 294-312: [raised, s, S]; raised is the IndexError of an
\* empty collection.
fix_scans(scans) ==
    LET lo == IF scans.kind = "slice"
              THEN (IF IsNone(scans.start) THEN min_scan ELSE scans.start[1])
              ELSE IF scans.kind = "int" THEN scans.val
              ELSE IF scans.items # {} THEN SetMin(scans.items) ELSE 0
        hi == IF scans.kind = "slice"
              THEN (IF IsNone(scans.stop) THEN max_scan ELSE scans.stop[1])
              ELSE IF scans.kind = "int" THEN scans.val + 1
              ELSE IF scans.items # {} THEN SetMax(scans.items) + 1 ELSE 0
    IN  IF scans.kind = "coll" /\ scans.items = {}
        THEN [raised |-> TRUE, s |-> 0, S |-> 0]
        ELSE [raised |-> FALSE,
              s |-> Min2(Max2(lo, min_scan), max_scan - 1),
              S |-> Max2(Min2(hi, max_scan), min_scan)]

\* ------------------------------------------------------------------- _iter

\* Lines 321-327: the scan selector _iter works with.
IterScans(arg) ==
    IF arg.scans.kind = "absent"
    THEN [kind |-> "slice", start |-> <<border_scans[1]>>, stop |-> <<border_scans[2]>>]
    ELSE arg.scans

\* Lines 329-339: the frame sequence; raised is range()'s ValueError on step 0.
IterFrames(sel) ==
    IF sel.kind = "str" THEN [raised |-> FALSE, seq |-> Query(sel.pred)]
    ELSE IF sel.kind = "slice"
    THEN LET start == IF IsNone(sel.start) THEN min_frame ELSE sel.start[1]
             stop == IF IsNone(sel.stop) THEN max_frame ELSE sel.stop[1]
             step == IF IsNone(sel.step) THEN 1 ELSE sel.step[1]
         IN  IF step = 0 THEN [raised |-> TRUE, seq |-> <<>>]
             ELSE [raised |-> FALSE, seq |-> PyRange(start, stop, step)]
    ELSE IF sel.kind = "iterable" THEN [raised |-> FALSE, seq |-> sel.items]
    ELSE [raised |-> FALSE, seq |-> <<sel.val>>]

\* The span test with its lower end excluded.
EligibleAboveMin(frameNo) == border_frames[1] < frameNo /\ frameNo <= border_frames[2]

\* Line 345: the frame is one of the session's.
Eligible(frameNo) == border_frames[1] <= frameNo /\ frameNo <= border_frames[2]

\* __getitem__(x) is entered: list(self._iter(x)) starts the generator.
GetItem ==
    /\ pc = "idle"
    /\ \E fsel \in FrameSelectors, ssel \in ScanSelectors :
          x' = [frames |-> fsel, scans |-> ssel]
    /\ pc' = "resolve"
    /\ UNCHANGED <<rtVars, cacheVars, diaVars, sessionVars, frames, s, S, i, calls, dfs, result, err>>

\* Lines 321-342 resolve both selectors.
Resolve ==
    /\ pc = "resolve"
    /\ LET fr == IterFrames(x.frames)
           sc == fix_scans(IterScans(x))
       IN  IF fr.raised
           THEN /\ pc' = "raised"
                /\ err' = "ValueError"
                /\ UNCHANGED <<frames, s, S>>
           ELSE IF sc.raised
           THEN /\ pc' = "raised"
                /\ err' = "IndexError"
                /\ frames' = fr.seq
                /\ UNCHANGED <<s, S>>
           ELSE /\ pc' = "loop"
                /\ frames' = fr.seq
                /\ s' = sc.s
                /\ S' = sc.S
                /\ UNCHANGED err
    /\ UNCHANGED <<rtVars, cacheVars, diaVars, sessionVars, x, i, calls, dfs, result>>

\* Line 345 false: the frame is skipped.
SkipFrame ==
    /\ pc = "loop"
    /\ i < Len(frames)
    /\ ~Eligible(frames[i + 1])
    /\ i' = i + 1
    /\ UNCHANGED <<rtVars, cacheVars, diaVars, sessionVars, pc, x, frames, s, S, calls, dfs, result, err>>

ThisCall == [frame |-> frames[i + 1], scan_begin |-> s, scan_end |-> S]

\* Lines 346-350: frame_array returns rows, which are yielded as a table.
FrameArrayRows ==
    /\ pc = "loop"
    /\ i < Len(frames)
    /\ Eligible(frames[i + 1])
    /\ calls' = Append(calls, ThisCall)
    /\ dfs' = Append(dfs, [columns |-> Columns, rows |-> <<frames[i + 1]>>])
    /\ i' = i + 1
    /\ UNCHANGED <<rtVars, cacheVars, diaVars, sessionVars, pc, x, frames, s, S, result, err>>

\* Lines 346-347: frame_array returns no rows, nothing is yielded.
FrameArrayEmpty ==
    /\ pc = "loop"
    /\ i < Len(frames)
    /\ Eligible(frames[i + 1])
    /\ calls' = Append(calls, ThisCall)
    /\ i' = i + 1
    /\ UNCHANGED <<rtVars, cacheVars, diaVars, sessionVars, pc, x, frames, s, S, dfs, result, err>>

\* A loop that catches the failure of one frame and goes on with the next.
FrameArrayRaisesCaught ==
    /\ pc = "loop"
    /\ i < Len(frames)
    /\ Eligible(frames[i + 1])
    /\ calls' = Append(calls, ThisCall)
    /\ i' = i + 1
    /\ err' = "BackendError"
    /\ UNCHANGED <<rtVars, cacheVars, diaVars, sessionVars, pc, x, frames, s, S, dfs, result>>

\* Line 346: frame_array raises; nothing catches it in _iter or __getitem__.
FrameArrayRaises ==
    /\ pc = "loop"
    /\ i < Len(frames)
    /\ Eligible(frames[i + 1])
    /\ calls' = Append(calls, ThisCall)
    /\ pc' = "raised"
    /\ err' = "BackendError"
    /\ UNCHANGED <<rtVars, cacheVars, diaVars, sessionVars, x, frames, s, S, i, dfs, result>>

RECURSIVE ConcatRows(_)
ConcatRows(tables) ==
    IF tables = <<>> THEN <<>>
    ELSE Head(tables).rows \o ConcatRows(Tail(tables))

\* __getitem__ without its else branch: nothing to return for no tables.
GetItemResultNoElse(tables) ==
    IF tables # <<>>
    THEN [kind |-> "DataFrame", columns |-> Head(tables).columns,
          rows |-> ConcatRows(tables)]
    ELSE NoResult

\* Lines 361-364: what __getitem__ returns for the tables the generator yielded.
GetItemResult(tables) ==
    IF tables # <<>>
    THEN [kind |-> "DataFrame", columns |-> Head(tables).columns,
          rows |-> ConcatRows(tables)]
    ELSE [kind |-> "DataFrame", columns |-> Columns, rows |-> <<>>]

\* The generator is exhausted: lines 360-364.
Return ==
    /\ pc = "loop"
    /\ i = Len(frames)
    /\ result' = GetItemResult(dfs)
    /\ pc' = "done"
    /\ UNCHANGED <<rtVars, cacheVars, diaVars, sessionVars, x, frames, s, S, i, calls, dfs, err>>

\* No lookup has been made.
RtIdle ==
    /\ rt_op = "none"
    /\ rt_arg = <<>>
    /\ rt_res = [raised |-> FALSE, vals |-> <<>>]

\* No accessor has been called.
CacheIdle ==
    /\ cache = [a \in Accessors |-> <<>>]
    /\ computes = [a \in Accessors |-> [o \in SessionIds |-> 0]]
    /\ last_call = [acc |-> "none", session |-> 0, hit |-> FALSE]
    /\ ncalls = 0

\* The session is no TimsDIA: no window table, no index.
DiaIdle ==
    /\ dia_pc = "none"
    /\ win_table = <<>>
    /\ windows = <<>>
    /\ grid = <<>>
    /\ scan_lims = <<>>
    /\ lookup = [scan |-> 0, group |-> 0, rows |-> {}]

\* No __getitem__ run has started.
RunIdle ==
    /\ pc = "idle"
    /\ x = [frames |-> NoSelector, scans |-> NoSelector]
    /\ frames = <<>>
    /\ s = 0
    /\ S = 0
    /\ i = 0
    /\ calls = <<>>
    /\ dfs = <<>>
    /\ result = NoResult
    /\ err = "none"

\* AdvancedTims.__init__, lines 32-40: frames 1..N, scans 0..NumScans.
Init ==
    /\ min_frame = 1
    /\ max_frame \in 1..MaxFrame
    /\ min_scan = 0
    /\ max_scan \in 1..MaxScan
    /\ pc = "idle"
    /\ x = [frames |-> NoSelector, scans |-> NoSelector]
    /\ frames = <<>>
    /\ s = 0
    /\ S = 0
    /\ i = 0
    /\ calls = <<>>
    /\ dfs = <<>>
    /\ result = NoResult
    /\ err = "none"
    /\ rt = [k \in 1..max_frame |-> k]
    /\ RtIdle
    /\ CacheIdle
    /\ DiaIdle

Next ==
    \/ GetItem
    \/ Resolve
    \/ SkipFrame
    \/ FrameArrayRows
    \/ FrameArrayEmpty
    \/ FrameArrayRaises
    \/ Return

Spec == Init /\ [][Next]_vars

\* ------------------------------------------------------ fix_scans on its own

\* Scan bounds as a session can hold them: AdvancedTims.__init__ sets (0,
\* NumScans), TimsDIA.__init__ (lines 477-479) the least scan_min and the
\* greatest scan_max of the window table, which coincide when every window is
\* one and the same scan. A session has at least one scan.
InitScans ==
    /\ min_frame = 1
    /\ max_frame = 1
    /\ min_scan \in 0..MaxScan
    /\ max_scan \in Max2(min_scan, 1)..MaxScan
    /\ RunIdle
    /\ rt = [k \in 1..max_frame |-> k]
    /\ RtIdle
    /\ CacheIdle
    /\ DiaIdle

\* self.fix_scans(scans) is called with a scan selector.
FixScans ==
    /\ pc = "idle"
    /\ \E ssel \in ScanSelectors \ [kind : {"absent"}] :
          LET sc == fix_scans(ssel)
          IN  /\ x' = [frames |-> NoSelector, scans |-> ssel]
              /\ IF sc.raised
                 THEN /\ pc' = "raised"
                      /\ err' = "IndexError"
                      /\ UNCHANGED <<s, S>>
                 ELSE /\ pc' = "fixed"
                      /\ s' = sc.s
                      /\ S' = sc.S
                      /\ UNCHANGED err
    /\ UNCHANGED <<rtVars, cacheVars, diaVars, sessionVars, frames, i, calls, dfs, result>>

NextScans == FixScans

SpecScans == InitScans /\ [][NextScans]_vars

\* ------------------------------------------------------ frame2rt / rt2frame

\* Retention times a session may hold, and the ones a caller may ask for.
RtVals == 0..MaxRt

\* Frame numbers a caller may ask the retention time of.
RtFrameVals == 0..(MaxRtFrames + 1)

RtQueries == (0 - 1)..(MaxRt + 1)

StrictlyAscending(q) == \A a, b \in 1..Len(q) : a < b => q[a] < q[b]

\* arr[idx] of a numpy array for a sequence of indices: 0-based, a negative
\* index counts from the end, anything else is an IndexError.
NumpyTake(arr, idx) ==
    LET n == Len(arr)
        ok(j) == 0 - n <= j /\ j < n
        at(j) == IF j >= 0 THEN arr[j + 1] ELSE arr[n + j + 1]
    IN  IF \A k \in 1..Len(idx) : ok(idx[k])
        THEN [raised |-> FALSE, vals |-> [k \in 1..Len(idx) |-> at(idx[k])]]
        ELSE [raised |-> TRUE, vals |-> <<>>]

\* np.searchsorted(a, v), side='left': how many elements of a are below v.
SearchSorted(a, v) == Cardinality({k \in 1..Len(a) : a[k] < v})

\* frame2rt, lines 115-122.
frame2rt(fs) == NumpyTake(rt, [k \in 1..Len(fs) |-> fs[k] + 1])

\* rt2frame without its assertion.
rt2frame_unchecked(rts) ==
    [raised |-> FALSE, vals |-> [k \in 1..Len(rts) |-> SearchSorted(rt, rts[k]) + 1]]

\* rt2frame, lines 125-133; raised is the AssertionError.
rt2frame(rts) ==
    IF \A k \in 1..Len(rts) : 0 <= rts[k] /\ rts[k] <= rt[Len(rt)]
    THEN [raised |-> FALSE,
          vals |-> [k \in 1..Len(rts) |-> SearchSorted(rt, rts[k]) + 1]]
    ELSE [raised |-> TRUE, vals |-> <<>>]

\* A session of N frames, numbered from 1, with strictly ascending retention
\* times (Frames sorted by frame, lines 30-33). Each behaviour follows one
\* lookup on it.
InitRt ==
    /\ min_frame = 1
    /\ max_frame \in 1..MaxRtFrames
    /\ min_scan = 0
    /\ max_scan = 1
    /\ RunIdle
    /\ rt \in {q \in [1..max_frame -> RtVals] : StrictlyAscending(q)}
    /\ RtIdle
    /\ CacheIdle
    /\ DiaIdle

CallFrame2Rt ==
    /\ rt_op = "none"
    /\ \E fs \in SeqsUpTo(RtFrameVals, MaxQuery) :
          /\ rt_arg' = fs
          /\ rt_res' = frame2rt(fs)
    /\ rt_op' = "frame2rt"
    /\ UNCHANGED <<sessionVars, runVars, cacheVars, diaVars, rt>>

CallRt2Frame ==
    /\ rt_op = "none"
    /\ \E rts \in SeqsUpTo(RtQueries, MaxQuery) :
          /\ rt_arg' = rts
          /\ rt_res' = rt2frame(rts)
    /\ rt_op' = "rt2frame"
    /\ UNCHANGED <<sessionVars, runVars, cacheVars, diaVars, rt>>

\* rt2frame(frame2rt(f)) for one frame of the session.
CallRoundTrip ==
    /\ rt_op = "none"
    /\ \E f \in min_frame..max_frame :
          /\ rt_arg' = <<f>>
          /\ rt_res' = (LET there == frame2rt(<<f>>)
                        IN  IF there.raised THEN there ELSE rt2frame(there.vals))
    /\ rt_op' = "roundtrip"
    /\ UNCHANGED <<sessionVars, runVars, cacheVars, diaVars, rt>>

NextRt ==
    \/ CallFrame2Rt
    \/ CallRt2Frame
    \/ CallRoundTrip

SpecRt == InitRt /\ [][NextRt]_vars

\* ------------------------------------------------------ memoized accessors

\* maxsize of the lru_cache on each accessor.
LruMaxsize == 1

\* functools.lru_cache wraps the function at class definition, so each accessor
\* has one cache for all sessions, keyed by self; the keys are kept from least
\* to most recently used.
LruTouch(keys, o) ==
    LET rest == SelectSeq(keys, LAMBDA k : k # o)
        all == Append(rest, o)
    IN  IF Len(all) > LruMaxsize THEN SubSeq(all, 2, Len(all)) ELSE all

LruHit(keys, o) == \E k \in 1..Len(keys) : keys[k] = o

InitCache ==
    /\ min_frame = 1
    /\ max_frame = 1
    /\ min_scan = 0
    /\ max_scan = 1
    /\ RunIdle
    /\ rt = [k \in 1..max_frame |-> k]
    /\ RtIdle
    /\ CacheIdle
    /\ DiaIdle

\* Session o calls accessor a and finds its value cached.
AccessorHit ==
    /\ ncalls < MaxCalls
    /\ \E a \in Accessors, o \in SessionIds :
          /\ LruHit(cache[a], o)
          /\ cache' = [cache EXCEPT ![a] = LruTouch(cache[a], o)]
          /\ last_call' = [acc |-> a, session |-> o, hit |-> TRUE]
    /\ ncalls' = ncalls + 1
    /\ UNCHANGED <<sessionVars, runVars, rtVars, diaVars, computes>>

\* Session o calls accessor a, which is computed (by backend calls over all
\* frames for global_TIC and count_all_peaks) and cached.
AccessorMiss ==
    /\ ncalls < MaxCalls
    /\ \E a \in Accessors, o \in SessionIds :
          /\ ~LruHit(cache[a], o)
          /\ cache' = [cache EXCEPT ![a] = LruTouch(cache[a], o)]
          /\ computes' = [computes EXCEPT ![a][o] = computes[a][o] + 1]
          /\ last_call' = [acc |-> a, session |-> o, hit |-> FALSE]
    /\ ncalls' = ncalls + 1
    /\ UNCHANGED <<sessionVars, runVars, rtVars, diaVars>>

NextCache ==
    \/ AccessorHit
    \/ AccessorMiss

SpecCache == InitCache /\ [][NextCache]_vars

\* ------------------------------------------------------ TimsDIA.__init__

\* math.inf, the right end of the MS1 window (line 484); it stands above every
\* m/z a window can have.
Inf == 99

\* The rows table2df('DiaFrameMsMsWindows') may hold: a window group, the
\* window's first and last scan, its isolation centre and its isolation width
\* (even, so that half of it is a whole number).
WindowRows ==
    {r \in [WindowGroup : 1..MaxGroup, ScanNumBegin : {0, 1}, ScanNumEnd : {0, 1},
            IsolationMz : {2, 3}, IsolationWidth : {0, 2}] :
        r.ScanNumBegin <= r.ScanNumEnd}

\* The window tables: at least one window, in any row order.
DiaTables == SeqsUpTo(WindowRows, MaxWindows) \ {<<>>}

\* sorted(list(T)) of a set of numbers.
SortedSet(T) ==
    [k \in 1..Cardinality(T) |->
        CHOOSE v \in T : Cardinality({u \in T : u < v}) = k - 1]

\* np.mod(a, b) on integers, b >= 0: 0 for b = 0 (numpy warns and yields 0).
NumpyMod(a, b) == IF b = 0 THEN 0 ELSE a % b

\* Lines 473-476: the window table with mz_left and mz_right.
DiaRows(tab) ==
    [k \in 1..Len(tab) |->
        [group |-> tab[k].WindowGroup,
         scan_min |-> tab[k].ScanNumBegin,
         scan_max |-> tab[k].ScanNumEnd,
         mz_left |-> tab[k].IsolationMz - tab[k].IsolationWidth \div 2,
         mz_right |-> tab[k].IsolationMz + tab[k].IsolationWidth \div 2]]

\* Lines 477-478.
DiaMinScan(tab) == SetMin({DiaRows(tab)[k].scan_min : k \in 1..Len(tab)})

DiaMaxScan(tab) == SetMax({DiaRows(tab)[k].scan_max : k \in 1..Len(tab)})

\* Lines 480-486: the MS1 window put first; row w is window w.
Assembled(tab) ==
    [w \in 0..Len(tab) |->
        IF w = 0
        THEN [group |-> 0, scan_min |-> DiaMinScan(tab), scan_max |-> DiaMaxScan(tab),
              mz_left |-> 0, mz_right |-> Inf]
        ELSE DiaRows(tab)[w]]

\* The greatest window id of an assembled table: len(W) - 1.
LastWindow(A) == SetMax(DOMAIN A)

\* Line 487: the largest number of windows of one group.
windows_per_group(A) ==
    SetMax({Cardinality({w \in DOMAIN A : A[w].group = g}) : g \in {A[w].group : w \in DOMAIN A}})

\* Line 488: the first stripe pass.
StripeFirst(A, w) == IF w # 0 THEN NumpyMod(w - 1, windows_per_group(A)) + 1 ELSE 0

\* Line 491: the boundary grid.
Grid(A) ==
    SortedSet({A[w].mz_left : w \in DOMAIN A} \cup {A[w].mz_right : w \in DOMAIN A})

\* Line 492.
WinLeft(A, w) == SearchSorted(Grid(A), A[w].mz_left)

\* The right index without its offset.
WinRightNoOffset(A, w) == SearchSorted(Grid(A), A[w].mz_right)

\* Line 493.
WinRight(A, w) == SearchSorted(Grid(A), A[w].mz_right) + 1

\* Lines 494-495: the grid indices of the window before, windows 0 and 1
\* taking the last window's.
PrevWindow(A, w) == IF w <= 1 THEN LastWindow(A) ELSE w - 1

\* Line 499: the window count over the window group of the last row.
stripes_no(A) == LastWindow(A) \div A[LastWindow(A)].group

\* Lines 500-501: the second stripe pass.
StripeSecond(A, w) == IF w = 0 THEN 0 - 1 ELSE NumpyMod(w - 1, stripes_no(A))

\* Lines 486-503: self.windows. The ion mobilities of lines 496-498 come from
\* the instrument's own conversion and are kept as the terms they are.
WindowsOf(tab) ==
    LET A == Assembled(tab)
        first == [w \in DOMAIN A |->
                    [window_gr |-> A[w].group,
                     scan_min |-> A[w].scan_min, scan_max |-> A[w].scan_max,
                     mz_left |-> A[w].mz_left, mz_right |-> A[w].mz_right,
                     win |-> w,
                     stripe |-> StripeFirst(A, w),
                     left |-> WinLeft(A, w), right |-> WinRight(A, w),
                     prev_left |-> WinLeft(A, PrevWindow(A, w)),
                     prev_right |-> WinRight(A, PrevWindow(A, w)),
                     IM_min |-> <<"scanNumToOneOverK0", 1, A[w].scan_min>>,
                     IM_max |-> <<"scanNumToOneOverK0", 1, A[w].scan_max>>]]
    IN  [w \in DOMAIN A |-> [first[w] EXCEPT !.stripe = StripeSecond(A, w)]]

\* The interval index closed on the right only (pandas' default).
ScanLimsRightClosed(W) ==
    [k \in 1..SetMax(DOMAIN W) |->
        [lo |-> W[k].scan_min, hi |-> W[k].scan_max, closed |-> "right",
         window_gr |-> W[k].window_gr,
         left |-> W[k].left, right |-> W[k].right,
         prev_left |-> W[k].prev_left, prev_right |-> W[k].prev_right]]

\* Lines 505-513: self.scan_lims, one entry per window from window 1 on, in
\* window order, keyed by the closed scan interval and the window group.
ScanLimsOf(W) ==
    [k \in 1..SetMax(DOMAIN W) |->
        [lo |-> W[k].scan_min, hi |-> W[k].scan_max, closed |-> "both",
         window_gr |-> W[k].window_gr,
         left |-> W[k].left, right |-> W[k].right,
         prev_left |-> W[k].prev_left, prev_right |-> W[k].prev_right]]

\* A scan lies in an entry's interval.
IntervalContains(e, scan) ==
    /\ IF e.closed \in {"both", "left"} THEN e.lo <= scan ELSE e.lo < scan
    /\ IF e.closed \in {"both", "right"} THEN scan <= e.hi ELSE scan < e.hi

\* windowForScan(scan, group): the entries of the index whose interval holds
\* the scan and whose window group is the one asked for; entry k is window k.
windowForScan(index, scan, group) ==
    {k \in 1..Len(index) : IntervalContains(index[k], scan) /\ index[k].window_gr = group}

\* A session whose window table has been read (line 472).
InitDia ==
    /\ min_frame = 1
    /\ max_frame = 1
    /\ min_scan = 0
    /\ max_scan = MaxScan
    /\ RunIdle
    /\ rt = [k \in 1..max_frame |-> k]
    /\ RtIdle
    /\ CacheIdle
    /\ dia_pc = "loaded"
    /\ win_table \in DiaTables
    /\ windows = <<>>
    /\ grid = <<>>
    /\ scan_lims = <<>>
    /\ lookup = [scan |-> 0, group |-> 0, rows |-> {}]

\* Lines 472-513 of TimsDIA.__init__.
DiaInit ==
    /\ dia_pc = "loaded"
    /\ min_scan' = DiaMinScan(win_table)
    /\ max_scan' = DiaMaxScan(win_table)
    /\ windows' = WindowsOf(win_table)
    /\ grid' = Grid(Assembled(win_table))
    /\ scan_lims' = ScanLimsOf(WindowsOf(win_table))
    /\ dia_pc' = "built"
    /\ UNCHANGED <<min_frame, max_frame, runVars, rtVars, cacheVars, win_table, lookup>>

\* A point lookup on the index.
CallWindowForScan ==
    /\ dia_pc = "built"
    /\ \E scan \in 0..(max_scan + 1), group \in 0..MaxGroup :
          lookup' = [scan |-> scan, group |-> group,
                     rows |-> windowForScan(scan_lims, scan, group)]
    /\ dia_pc' = "looked"
    /\ UNCHANGED <<sessionVars, runVars, rtVars, cacheVars,
                   win_table, windows, grid, scan_lims>>

NextDia ==
    \/ DiaInit
    \/ CallWindowForScan

SpecDia == InitDia /\ [][NextDia]_vars

\* ------------------------------------------------- properties of one run

\* f is a frame number of the session.
InSpan(f) == min_frame <= f /\ f <= max_frame

\* The frame numbers of the raw-extraction calls, in the order they were issued.
CallFrames == [k \in 1..Len(calls) |-> calls[k].frame]

\* How many elements of the frame sequence the loop body has run for.
Consumed == IF err = "BackendError" THEN i + 1 ELSE i

Occurrences(q, n, f) == Cardinality({k \in 1..n : q[k] = f})

NonDecreasing(q) == \A a, b \in 1..Len(q) : a < b => q[a] <= q[b]

\* The frame selector is a predicate, a single integer or a range that steps
\* forward.
ForwardSelector ==
    \/ x.frames.kind \in {"str", "int"}
    \/ x.frames.kind = "slice" /\ (IsNone(x.frames.step) \/ x.frames.step[1] > 0)

EmptyScanCollection == x.scans.kind = "coll" /\ x.scans.items = {}

ZeroStep ==
    x.frames.kind = "slice" /\ ~IsNone(x.frames.step) /\ x.frames.step[1] = 0

EmptyTable == [kind |-> "DataFrame", columns |-> Columns, rows |-> <<>>]

\* C1, as stated: the raw-extraction calls of a run are issued in ascending
\* frame-number order for every frame selector: no call for frame g follows a
\* call for a frame f > g.
C1_AscendingForEverySelector == NonDecreasing(CallFrames)

\* C1, amended: the calls are issued in the order of the resolved frame
\* sequence (the eligible elements of the part consumed so far, in sequence
\* order); that order is ascending for a predicate, a single integer and a
\* forward range, while a collection or a backward range is used as given.
C1_CallsInSequenceOrder ==
    /\ CallFrames = SelectSeq(SubSeq(frames, 1, Consumed), InSpan)
    /\ ForwardSelector => NonDecreasing(CallFrames)

\* C1 witness: an explicit collection given out of order, called as given.
C1_Witness ==
    /\ pc = "done"
    /\ x.frames.kind = "iterable"
    /\ Len(CallFrames) = 2
    /\ CallFrames[1] > CallFrames[2]

\* C2: every element of the frame sequence the run has reached got exactly one
\* raw-extraction call if its frame number lies in [min_frame, max_frame] and
\* none otherwise; a completed run has reached every element; no error is
\* raised at an element outside [min_frame, max_frame].
C2_OneCallPerEligibleElement ==
    /\ \A k \in 1..Len(frames) :
          Occurrences(CallFrames, Len(calls), frames[k])
            = IF InSpan(frames[k]) THEN Occurrences(frames, Consumed, frames[k]) ELSE 0
    /\ \A k \in 1..Len(calls) : InSpan(calls[k].frame)
    /\ pc = "done" => Consumed = Len(frames)
    /\ err = "BackendError" => InSpan(frames[i + 1])

\* C2 witness: a completed run over an explicit collection holding a frame of
\* the session, which was called, and a frame outside it, which was skipped.
C2_Witness ==
    /\ pc = "done"
    /\ x.frames.kind = "iterable"
    /\ Len(frames) = 2
    /\ Len(calls) = 1
    /\ \E k \in 1..Len(frames) : ~InSpan(frames[k])

\* C3, as stated: the default range (no start, no stop) gets a raw-extraction
\* call for every frame from min_frame to max_frame, max_frame included.
C3_DefaultRangeCoversSpan ==
    (/\ pc = "done"
     /\ x.frames.kind = "slice"
     /\ IsNone(x.frames.start) /\ IsNone(x.frames.stop) /\ IsNone(x.frames.step))
    => \A f \in min_frame..max_frame : \E k \in 1..Len(calls) : calls[k].frame = f

\* C5: when no frame yielded data and the run was not ended by an error of its
\* own selectors or of the backend, __getitem__ returns the zero-row table with
\* the four columns; a run raises only for a zero step, an empty scan
\* collection or a backend failure, and a finished run always returns a table.
C5_EmptyResultIsATable ==
    /\ (pc = "done" /\ dfs = <<>>) => result = EmptyTable
    /\ pc = "done" => result.kind = "DataFrame" /\ result.columns = Columns
    /\ pc = "raised" => (ZeroStep \/ EmptyScanCollection \/ err = "BackendError")
    /\ (pc = "loop" /\ i = Len(frames)) => ENABLED Return

\* C5 witness: every frame was asked for and every backend result was empty.
C5_Witness ==
    /\ pc = "done"
    /\ calls # <<>>
    /\ dfs = <<>>
    /\ result.rows = <<>>

\* C6: an empty explicit scan collection ends the run with an error raised to
\* the caller (IndexError, or range()'s ValueError when the frame range has a
\* zero step, which is raised first): no result is returned and no
\* raw-extraction call was issued.
C6_EmptyScanCollectionRaises ==
    (EmptyScanCollection /\ pc \notin {"idle", "resolve"})
    => /\ pc = "raised"
       /\ err = (IF ZeroStep THEN "ValueError" ELSE "IndexError")
       /\ result = NoResult
       /\ calls = <<>>

\* C6 witness: the IndexError of fix_scans reached the caller.
C6_Witness ==
    /\ EmptyScanCollection
    /\ pc = "raised"
    /\ err = "IndexError"
    /\ \E k \in 1..Len(frames) : InSpan(frames[k])

\* C7, as stated: a failed raw-extraction call aborts the iteration for its
\* frame only, so once the run has ended every eligible frame that follows the
\* failed one in the sequence has got its call.
C7_FailureSkipsOneFrame ==
    (pc = "raised" /\ err = "BackendError")
    => \A k \in (i + 2)..Len(frames) :
          InSpan(frames[k]) =>
             Occurrences(CallFrames, Len(calls), frames[k])
               = Occurrences(frames, Len(frames), frames[k])

\* C7, amended: a failed raw-extraction call is not retried and its error
\* propagates to the caller, which ends the run: the failed call is the last
\* one, no later element of the sequence gets a call, and no table is returned.
C7_FailureEndsTheRun ==
    err = "BackendError"
    => /\ pc = "raised"
       /\ result = NoResult
       /\ calls # <<>>
       /\ calls[Len(calls)].frame = frames[i + 1]
       /\ Len(calls) = Len(SelectSeq(SubSeq(frames, 1, i + 1), InSpan))
       /\ ~ENABLED Next

\* C7 witness: the backend failed with an eligible frame still to come.
C7_Witness ==
    /\ err = "BackendError"
    /\ pc = "raised"
    /\ \E k \in (i + 2)..Len(frames) : InSpan(frames[k])

\* ------------------------------------------------------ properties of fix_scans

\* C4, as stated: for every scan selector that resolves and every session
\* bounds, min_scan <= scanLow <= max_scan - 1 and min_scan <= scanHigh <= max_scan.
C4_BoundsClampedForEverySession ==
    pc = "fixed"
    => /\ min_scan <= s /\ s <= max_scan - 1
       /\ min_scan <= S /\ S <= max_scan

\* C4, amended: the bounds hold for every session with min_scan < max_scan; in
\* a session with min_scan = max_scan the upper bound still lies in
\* [min_scan, max_scan] while the lower bound is max_scan - 1, below min_scan.
C4_BoundsClamped ==
    pc = "fixed"
    => /\ min_scan <= S /\ S <= max_scan
       /\ s <= max_scan - 1
       /\ min_scan < max_scan => min_scan <= s
       /\ min_scan = max_scan => s = max_scan - 1

\* C4 witness: a range reaching beyond both ends was clamped to the span.
C4_Witness ==
    /\ pc = "fixed"
    /\ min_scan < max_scan
    /\ x.scans.kind = "slice"
    /\ ~IsNone(x.scans.start) /\ x.scans.start[1] < min_scan
    /\ ~IsNone(x.scans.stop) /\ x.scans.stop[1] > max_scan
    /\ s = min_scan
    /\ S = max_scan

\* ------------------------------------------- properties of the rt lookups

\* C8: for every frame f of the session, frame2rt(f) is defined and
\* rt2frame(frame2rt(f)) = f.
C8_RoundTrip ==
    rt_op = "roundtrip" => ~rt_res.raised /\ rt_res.vals = rt_arg

\* C9: rt2frame fails, returning nothing, whenever a queried retention time is
\* below 0 or above the session's greatest one; otherwise it returns, for each
\* query, a frame number of the session: the first frame whose retention time
\* is not below the query.
C9_Rt2FrameDomain ==
    rt_op = "rt2frame"
    => IF \E k \in 1..Len(rt_arg) : rt_arg[k] < 0 \/ rt_arg[k] > rt[Len(rt)]
       THEN rt_res.raised /\ rt_res.vals = <<>>
       ELSE /\ ~rt_res.raised
            /\ Len(rt_res.vals) = Len(rt_arg)
            /\ \A k \in 1..Len(rt_arg) :
                  /\ min_frame <= rt_res.vals[k] /\ rt_res.vals[k] <= max_frame
                  /\ rt[rt_res.vals[k] - min_frame + 1] >= rt_arg[k]
                  /\ \A f \in min_frame..(rt_res.vals[k] - 1) :
                        rt[f - min_frame + 1] < rt_arg[k]

\* C9 witness: a query above the greatest retention time, beside one inside the
\* span, made the lookup fail.
C9_Witness ==
    /\ rt_op = "rt2frame"
    /\ Len(rt_arg) = 2
    /\ rt_arg[1] = rt[1]
    /\ rt_arg[2] > rt[Len(rt)]
    /\ rt_res.raised

\* ------------------------------------------ properties of the accessors

\* C10: every memoized accessor is computed at most once per session, however
\* the calls of the live sessions interleave.
C10_ComputedAtMostOnce ==
    \A a \in Accessors, o \in SessionIds : computes[a][o] <= 1

\* ------------------------------------------ properties of the window index

DiaBuilt == dia_pc \in {"built", "looked"}

\* The ids of the assembled table: 0 (MS1) and one per row of the window table.
WindowIds == 0..Len(win_table)

\* The boundary values of the assembled table, MS1's 0 and infinity included.
BoundaryValues ==
    {0, Inf}
    \cup {win_table[k].IsolationMz - win_table[k].IsolationWidth \div 2 : k \in 1..Len(win_table)}
    \cup {win_table[k].IsolationMz + win_table[k].IsolationWidth \div 2 : k \in 1..Len(win_table)}

\* C11: after construction from a window table with mz_left <= mz_right per
\* window, the boundary grid is strictly ascending (it holds every boundary
\* value once) and every window's grid indices satisfy left < right, left and
\* right - 1 being the places of its mz_left and mz_right in the grid.
C11_GridAscendingLeftBelowRight ==
    DiaBuilt
    => /\ \A a, b \in 1..Len(grid) : a < b => grid[a] < grid[b]
       /\ {grid[k] : k \in 1..Len(grid)} = BoundaryValues
       /\ \A w \in WindowIds :
             /\ windows[w].mz_left <= windows[w].mz_right
             /\ windows[w].left < windows[w].right
             /\ grid[windows[w].left + 1] = windows[w].mz_left
             /\ grid[windows[w].right] = windows[w].mz_right

\* C11 witness: an index built from two windows that share a boundary value,
\* one of them of zero width.
C11_Witness ==
    /\ DiaBuilt
    /\ Len(win_table) = 2
    /\ windows[1].mz_left = windows[1].mz_right
    /\ windows[2].mz_left < windows[2].mz_right
    /\ windows[2].mz_left = windows[1].mz_right
    /\ Len(grid) = 4

\* C12: for every window with id >= 1 and every scan inside its declared
\* [scan_min, scan_max], the lookup of that scan with the window's group finds
\* a window, that window among them, and every window it finds is of that
\* group and has declared scan bounds that contain the scan.
C12_LookupFindsContainingWindows ==
    dia_pc = "looked"
    => /\ \A r \in lookup.rows :
             /\ r \in 1..Len(win_table)
             /\ win_table[r].WindowGroup = lookup.group
             /\ win_table[r].ScanNumBegin <= lookup.scan
             /\ lookup.scan <= win_table[r].ScanNumEnd
       /\ \A w \in 1..Len(win_table) :
             (/\ win_table[w].WindowGroup = lookup.group
              /\ win_table[w].ScanNumBegin <= lookup.scan
              /\ lookup.scan <= win_table[w].ScanNumEnd)
             => w \in lookup.rows

\* C12 witness: a lookup of the last scan of a window that spans two scans,
\* which found that window and no other.
C12_Witness ==
    /\ dia_pc = "looked"
    /\ Len(win_table) = 2
    /\ lookup.rows = {2}
    /\ win_table[2].ScanNumBegin < win_table[2].ScanNumEnd
    /\ lookup.scan = win_table[2].ScanNumEnd
    /\ win_table[1].WindowGroup # lookup.group

\* C13: after construction the stripe of every window with id >= 1 is
\* (window_id - 1) mod stripes_no, with stripes_no = (total_windows - 1)
\* divided by the greatest window group id of the assembled table (where that
\* quotient is at least 1), window 0 holds -1 and no window with id >= 1 holds
\* window 0's value.
C13_StripeFromGroupCount ==
    DiaBuilt
    => LET total == Len(win_table) + 1
           groups == {0} \cup {win_table[k].WindowGroup : k \in 1..Len(win_table)}
           most == CHOOSE g \in groups : \A h \in groups : h <= g
           sn == (total - 1) \div most
       IN  /\ windows[0].stripe = 0 - 1
           /\ \A w \in 1..Len(win_table) :
                 /\ windows[w].stripe # windows[0].stripe
                 /\ sn >= 1 => windows[w].stripe = (w - 1) % sn

====
